---- MODULE Spec2Model ----
(***************************************************************************)
(* neodb: the memcache-backed mutex (mutex.lock), the neodb.lock wrapper   *)
(* and the lock-name derivation as_path.                                   *)
(*                                                                         *)
(* Strings are sequences of one-character strings, so that str() and       *)
(* separator.join() are computed and not assumed.  Time is discrete: one   *)
(* Tick is one second of the store's clock.                                *)
(***************************************************************************)
EXTENDS Integers, Sequences, FiniteSets, TLC

\* ---------------------------------------------------------------- bounds
NumProcs == 2
ShortExpiry == 1
LongExpiry == 4
MaxRetries == 2
MaxDepth == 2
MaxKeySize == 3

Procs == 1..NumProcs
\* An expiry shorter than any sleep, and one longer than the sleeps of a
\* call with MaxRetries attempts.
Expiries == {ShortExpiry, LongExpiry}
RetryCounts == 0..MaxRetries

\* ------------------------------------------------- strings and identities
Digit(d) == CASE d = 0 -> "0" [] d = 1 -> "1" [] d = 2 -> "2" [] d = 3 -> "3"
              [] d = 4 -> "4" [] d = 5 -> "5" [] d = 6 -> "6" [] d = 7 -> "7"
              [] d = 8 -> "8" [] d = 9 -> "9"

\* str(n) of a Python int: base 10, a sign for negatives, no leading zeros.
RECURSIVE DecimalDigits(_)
DecimalDigits(n) == IF n < 10 THEN <<Digit(n)>>
                    ELSE DecimalDigits(n \div 10) \o <<Digit(n % 10)>>

IntId(n) == [int |-> TRUE, n |-> n, s |-> <<>>]
StrId(s) == [int |-> FALSE, n |-> 0, s |-> s]

\* The id of an incomplete key is None.
NoneId == [int |-> FALSE, n |-> -1, s |-> <<>>]
IsNone(it) == ~it.int /\ it.n = -1

\* str(it) for one element of Key.flat(): a kind or a string id is returned
\* unchanged, an integer id is rendered in decimal, None gives 'None'.
str(it) == IF IsNone(it) THEN <<"N", "o", "n", "e">>
           ELSE IF it.int
           THEN (IF it.n < 0 THEN <<"-">> \o DecimalDigits(-it.n)
                 ELSE DecimalDigits(it.n))
           ELSE it.s

\* Key.flat(): (kind1, id1, kind2, id2, ...), root first.
RECURSIVE flat(_)
flat(path) == IF path = <<>> THEN <<>>
              ELSE <<StrId(path[1].kind), path[1].id>> \o flat(Tail(path))

\* separator.join(parts)
RECURSIVE join(_, _)
join(separator, parts) ==
    IF parts = <<>> THEN <<>>
    ELSE IF Len(parts) = 1 THEN parts[1]
    ELSE parts[1] \o separator \o join(separator, Tail(parts))

\* None as an item (a key has at least one pair, so the empty path is free
\* to stand for it) and None as a result (no string has an element of more
\* than one character).
NoneItem == <<>>
NoneName == <<"None">>

\* as_path(item, separator): None for None, else the joined flat key.
as_path(item, separator) ==
    IF item = NoneItem THEN NoneName
    ELSE LET parts == flat(item)
         IN join(separator, [i \in 1..Len(parts) |-> str(parts[i])])

Colon == <<":">>

\* The entities of the lock protocol: two keys with one (kind, id) pair each.
ItemA == << [kind |-> <<"A">>, id |-> IntId(1)] >>
ItemB == << [kind |-> <<"B">>, id |-> StrId(<<"x">>)] >>
Items == {ItemA, ItemB}
LockNames == { as_path(i, Colon) : i \in Items }

\* The identity paths name derivation is applied to: kinds, integer ids and
\* string ids (none holds a separator), up to MaxDepth ancestors deep.
Kinds == { <<"A">>, <<"B">> }
Ids == { IntId(1), IntId(10), StrId(<<"1">>) }
Pairs == [kind : Kinds, id : Ids]
Paths == UNION { [1..d -> Pairs] : d \in 1..MaxDepth }
Separators == { <<":">>, <<"/">> }

\* The identities with nothing to derive a name from: no item at all, and a
\* key whose id is not set yet.
IncompleteItem == << [kind |-> <<"A">>, id |-> NoneId] >>
InvalidItems == {NoneItem, IncompleteItem}
Derivable == Paths \cup InvalidItems

\* ------------------------------------------------------------------ state
VARIABLES
    known,     \* the entities that exist, i.e. that a caller can lock
    expiryArg, \* the expiry the application passes to mutex.lock
    pc,        \* where each caller of mutex.lock is
    args,      \* the arguments of each call: mutex, expiry, retries, backoff
    retry,     \* the loop variable of each caller
    sleepLeft, \* seconds a sleeping caller still has to sleep
    store,     \* the 'mutex' namespace of memcache
    outcome,   \* how the protected block of each caller ended
    err,       \* the mutex carried by a raised LockUnavailable
    tally,     \* per caller: add attempts, successful adds, deletes, block run
    held,      \* seconds since a caller's successful add (capped at expiry)
    overrun,   \* some entry expired while its creator was still in its block
    parent,    \* for a call made inside a protected block: the caller in that block
    derived,   \* the last name derivations: two paths, a separator, two names
    gen        \* the key generation under way: its arguments and its output

lockVars == <<known, expiryArg, pc, args, retry, sleepLeft, store, outcome, err,
              tally, held, overrun, parent>>
vars == <<lockVars, derived, gen>>

Absent == [present |-> FALSE, owner |-> 0, ttl |-> 0]
NoArgs == [mutex |-> <<>>, expiry |-> 0, retries |-> 0, backoff |-> 0]
NoTally == [attempts |-> 0, added |-> 0, deleted |-> 0, ran |-> FALSE]

\* backoff=2, the default of mutex.lock.
DefaultBackoff == 2

InitCallers ==
    /\ pc = [p \in Procs |-> "idle"]
    /\ args = [p \in Procs |-> NoArgs]
    /\ retry = [p \in Procs |-> 0]
    /\ sleepLeft = [p \in Procs |-> 0]
    /\ store = [n \in LockNames |-> Absent]
    /\ outcome = [p \in Procs |-> "none"]
    /\ err = [p \in Procs |-> <<>>]
    /\ tally = [p \in Procs |-> NoTally]
    /\ held = [p \in Procs |-> 0]
    /\ overrun = FALSE
    /\ parent = [p \in Procs |-> 0]

\* gen_key joins the characters it draws one by one; of the string under
\* construction the state keeps the number of characters joined so far and
\* the character joined last.
NoKey == [pc |-> "idle", via |-> "none", size |-> 0, alphabet |-> <<>>,
          n |-> 0, last |-> ""]

NoDerivation == [a |-> <<>>, b |-> <<>>, sep |-> <<>>, na |-> <<>>, nb |-> <<>>]

Init ==
    /\ known = {ItemA}
    /\ expiryArg \in Expiries
    /\ InitCallers
    /\ derived = NoDerivation
    /\ gen = NoKey

\* ------------------------------------------------------- the memcache store
\* Variant: an add that succeeds whether or not the key is set.
AddAlways(st, key) == TRUE

\* Variant: the result of the add read the wrong way round.
AddInverted(st, key) == st[key].present

\* memcache.add succeeds iff the key is not set.
AddSucceeds(st, key) == ~st[key].present

\* Variant: memcache.set in place of memcache.add, which writes an entry
\* over the one that is there.
MemcacheSet(st, key, p, expiry) ==
    [st EXCEPT ![key] = [present |-> TRUE, owner |-> p, ttl |-> expiry]]

\* memcache.add(key, True, time=expiry, namespace='mutex') by caller p.
MemcacheAdd(st, key, p, expiry) ==
    IF AddSucceeds(st, key)
    THEN [st EXCEPT ![key] = [present |-> TRUE, owner |-> p, ttl |-> expiry]]
    ELSE st

\* Variant: a delete that flushes the whole namespace.
DeleteAll(st, key) == [n \in LockNames |-> Absent]

\* Variant: a delete that misses the entry (another namespace).
DeleteNothing(st, key) == st

\* memcache.delete(key, namespace='mutex'): removes the entry, whoever set it.
MemcacheDelete(st, key) == [st EXCEPT ![key] = Absent]

\* Variant: entries stored without an expiry, which never lapse.
ExpireNever(st) == st

\* One second passes in the store: an entry whose time is up is dropped.
Expire(st) ==
    [n \in LockNames |->
        IF st[n].present /\ st[n].ttl > 1
        THEN [st[n] EXCEPT !.ttl = st[n].ttl - 1]
        ELSE Absent]

\* ----------------------------------------------------------- mutex.lock
RECURSIVE Pow(_, _)
Pow(b, e) == IF e = 0 THEN 1 ELSE b * Pow(b, e - 1)

\* random() * 1 lies in [0, 1): a sleep of backoff ** retry plus that much
\* spans backoff ** retry whole seconds, or one more.
Jitter == {0, 1}

\* Variant: a linear backoff, backoff * retry.
SleepLinear(backoff, r, jitter) == backoff * r + jitter
SleepTime(backoff, r, jitter) == Pow(backoff, r) + jitter

\* A caller enters mutex.lock (directly or through neodb.lock(item)).
Call(p) ==
    /\ pc[p] = "idle"
    /\ \E item \in known, r \in RetryCounts :
          args' = [args EXCEPT ![p] = [mutex |-> as_path(item, Colon),
                                       expiry |-> expiryArg, retries |-> r,
                                       backoff |-> DefaultBackoff]]
    /\ pc' = [pc EXCEPT ![p] = "loop"]
    /\ retry' = [retry EXCEPT ![p] = 0]
    /\ UNCHANGED <<derived, gen, parent, known, expiryArg, sleepLeft, store, outcome, err, tally, held, overrun>>

\* Variant: a loop bound off by one, xrange(retries + 1).
LoopContinuesOnceMore(p) == retry[p] <= args[p].retries

\* for retry in xrange(retries): the loop still has an iteration to run.
LoopContinues(p) == retry[p] < args[p].retries

\* Variant: no break after a successful add; the loop sleeps and goes on.
AttemptNoBreak(p) ==
    /\ pc[p] = "loop"
    /\ LoopContinues(p)
    /\ LET key == args[p].mutex
           ok == AddSucceeds(store, key)
       IN /\ store' = MemcacheAdd(store, key, p, args[p].expiry)
          /\ tally' = [tally EXCEPT ![p].attempts = @ + 1,
                                    ![p].added = IF ok THEN @ + 1 ELSE @]
    /\ pc' = [pc EXCEPT ![p] = "sleep"]
    /\ \E j \in Jitter :
          sleepLeft' = [sleepLeft EXCEPT ![p] =
                           SleepTime(args[p].backoff, retry[p], j)]
    /\ UNCHANGED <<derived, gen, parent, known, expiryArg, args, retry, outcome, err, held, overrun>>

\* One iteration: memcache.add; break on success, else start the sleep.
Attempt(p) ==
    /\ pc[p] = "loop"
    /\ LoopContinues(p)
    /\ LET key == args[p].mutex
           ok == AddSucceeds(store, key)
       IN /\ store' = MemcacheAdd(store, key, p, args[p].expiry)
          /\ tally' = [tally EXCEPT ![p].attempts = @ + 1,
                                    ![p].added = IF ok THEN @ + 1 ELSE @,
                                    ![p].ran = IF ok THEN TRUE ELSE @]
          /\ IF ok
             THEN /\ pc' = [pc EXCEPT ![p] = "block"]
                  /\ UNCHANGED sleepLeft
             ELSE /\ pc' = [pc EXCEPT ![p] = "sleep"]
                  /\ \E j \in Jitter :
                        sleepLeft' = [sleepLeft EXCEPT ![p] =
                                         SleepTime(args[p].backoff, retry[p], j)]
    /\ UNCHANGED <<derived, gen, parent, known, expiryArg, args, retry, outcome, err, held, overrun>>

\* time.sleep returns; the loop moves to its next iteration.
NextRetry(p) == retry[p] + 1

Wake(p) ==
    /\ pc[p] = "sleep"
    /\ sleepLeft[p] = 0
    /\ pc' = [pc EXCEPT ![p] = "loop"]
    /\ retry' = [retry EXCEPT ![p] = NextRetry(p)]
    /\ UNCHANGED <<derived, gen, parent, known, expiryArg, args, sleepLeft, store, outcome, err, tally, held, overrun>>

\* Variant: a loop that starts over instead of raising.
ExhaustedStartsOver(p) ==
    /\ pc[p] = "loop"
    /\ retry[p] >= args[p].retries
    /\ retry' = [retry EXCEPT ![p] = 0]
    /\ UNCHANGED <<derived, gen, parent, known, expiryArg, pc, args, sleepLeft, store, outcome,
                   err, tally, held, overrun>>

\* The loop ran out without a break: else: raise LockUnavailable(mutex).
\* The frame of the call is gone; what stays is what the caller observes.
Exhausted(p) ==
    /\ pc[p] = "loop"
    /\ ~LoopContinues(p)
    /\ pc' = [pc EXCEPT ![p] = "unavailable"]
    /\ err' = [err EXCEPT ![p] = args[p].mutex]
    /\ args' = [args EXCEPT ![p] = [NoArgs EXCEPT !.mutex = args[p].mutex]]
    /\ retry' = [retry EXCEPT ![p] = 0]
    /\ UNCHANGED <<derived, gen, parent, known, expiryArg, sleepLeft, store, outcome, tally, held, overrun>>

\* How the protected block (the body of the with statement) can end:
\* normally, by an early return, or by raising an error.
BlockOutcomes == {"normal", "return", "error"}

\* Variant: a finally clause that returns, which swallows the error.
PropagateSwallowed(o) == "returned"

\* How the call ends for its caller once the finally clause has run: an error
\* thrown into the generator leaves it again (through the neodb.lock wrapper
\* too, whose with statement re-raises it); otherwise the call returns.
Propagate(o) == IF o = "error" THEN "raised" ELSE "returned"

\* A call is under way: it has neither returned nor raised.
Live(q) == pc[q] \in {"loop", "sleep", "block"}

\* No call made inside the protected block of p is still under way.
NoLiveChild(p) == \A q \in Procs : parent[q] = p => ~Live(q)

\* The protected block ends with outcome o; finally:
\* memcache.delete(mutex, namespace='mutex'); then the outcome leaves.
\* The block cannot end while a call it made is under way.
Release(p, o) ==
    /\ pc[p] = "block"
    /\ NoLiveChild(p)
    /\ store' = MemcacheDelete(store, args[p].mutex)
    /\ tally' = [tally EXCEPT ![p].deleted = @ + 1]
    /\ outcome' = [outcome EXCEPT ![p] = o]
    /\ pc' = [pc EXCEPT ![p] = Propagate(o)]
    /\ args' = [args EXCEPT ![p] = [NoArgs EXCEPT !.mutex = args[p].mutex]]
    /\ retry' = [retry EXCEPT ![p] = 0]
    /\ held' = [held EXCEPT ![p] = 0]
    /\ UNCHANGED <<derived, gen, parent, known, expiryArg, sleepLeft, err, overrun>>

\* The calls of the process of p that are in their blocks: p, and the calls
\* in whose blocks p was made.
RECURSIVE Stack(_)
Stack(p) == IF parent[p] = 0 THEN {p} ELSE {p} \cup Stack(parent[p])

\* The process dies inside the protected block: its finally never runs,
\* nor do those of the blocks around it.
Crash(p) ==
    /\ pc[p] = "block"
    /\ NoLiveChild(p)
    /\ pc' = [a \in Procs |-> IF a \in Stack(p) THEN "crashed" ELSE pc[a]]
    /\ UNCHANGED <<derived, gen, parent, known, expiryArg, args, retry, sleepLeft, store, outcome, err, tally, held, overrun>>

\* One second passes: sleepers get closer to waking, entries to expiring.
Holding(p) == pc[p] \in {"block", "crashed"}

Tick ==
    /\ store' = Expire(store)
    /\ sleepLeft' = [p \in Procs |-> IF sleepLeft[p] > 0 THEN sleepLeft[p] - 1 ELSE 0]
    /\ held' = [p \in Procs |->
                   IF Holding(p) /\ held[p] < args[p].expiry
                   THEN held[p] + 1 ELSE held[p]]
    /\ overrun' = (\/ overrun
                   \/ \E p \in Procs :
                         /\ pc[p] = "block"
                         /\ store[args[p].mutex].present
                         /\ store[args[p].mutex].owner = p
                         /\ ~Expire(store)[args[p].mutex].present)
    /\ UNCHANGED <<derived, gen, parent, known, expiryArg, pc, args, retry, outcome, err, tally>>

Step(p) == \/ Call(p)
           \/ Attempt(p)
           \/ Wake(p)
           \/ Exhausted(p)
           \/ \E o \in BlockOutcomes : Release(p, o)
           \/ Crash(p)

Next == \/ \E p \in Procs : Step(p)
        \/ Tick

Spec == Init /\ [][Next]_vars

\* Scheduling: every caller that can take a step eventually takes it, the
\* protected block ends, and time passes.  A crash is never forced.
Progress(p) == \/ Attempt(p)
               \/ Wake(p)
               \/ Exhausted(p)
               \/ \E o \in BlockOutcomes : Release(p, o)

\* The callers pass expiry=1, the shortest expiry memcache accepts.
FairInit ==
    /\ known = {ItemA}
    /\ expiryArg = 1
    /\ InitCallers
    /\ derived = NoDerivation
    /\ gen = NoKey

FairSpec == /\ FairInit
            /\ [][Next]_vars
            /\ WF_vars(Tick)
            /\ \A p \in Procs : WF_vars(Progress(p))

\* ------------------------------------------ a lock inside a locked block
\* The protected block of p calls mutex.lock with the same mutex again: the
\* call q runs in p's process, and p goes on when q has returned or raised.
CallNested(q) ==
    /\ pc[q] = "idle"
    /\ \E p \in Procs \ {q}, r \in RetryCounts :
          /\ pc[p] = "block"
          /\ NoLiveChild(p)
          /\ args' = [args EXCEPT ![q] = [args[p] EXCEPT !.retries = r]]
          /\ parent' = [parent EXCEPT ![q] = p]
    /\ pc' = [pc EXCEPT ![q] = "loop"]
    /\ retry' = [retry EXCEPT ![q] = 0]
    /\ UNCHANGED <<derived, gen, known, expiryArg, sleepLeft, store, outcome, err,
                   tally, held, overrun>>

NestNext == \/ Next
            \/ \E q \in Procs : CallNested(q)

\* The callers pass expiry=4: an entry outlasts two attempts and their
\* sleeps (1 + 2 seconds), and lapses under a block that waits longer.
NestInit ==
    /\ known = {ItemA}
    /\ expiryArg = 4
    /\ InitCallers
    /\ derived = NoDerivation
    /\ gen = NoKey

NestSpec == NestInit /\ [][NestNext]_vars

\* ------------------------------------------------ two entities to lock
\* Both entities exist, so callers may lock different names; expiry=2.
IsoInit ==
    /\ known = Items
    /\ expiryArg = 2
    /\ InitCallers
    /\ derived = NoDerivation
    /\ gen = NoKey

IsoSpec == IsoInit /\ [][Next]_vars

\* ------------------------------------------------- name derivation alone
PathInit ==
    /\ known = {}
    /\ expiryArg = 1
    /\ InitCallers
    /\ derived = NoDerivation
    /\ gen = NoKey

\* as_path is applied to two keys with the same separator.
Derive(a, b, sep) ==
    /\ derived' = [a |-> a, b |-> b, sep |-> sep,
                   na |-> as_path(a, sep), nb |-> as_path(b, sep)]
    /\ UNCHANGED <<lockVars, gen>>

\* One derivation per run: the inputs are drawn once.
PathNext == /\ derived = NoDerivation
            /\ \E a \in Derivable, b \in Derivable, sep \in Separators :
                  Derive(a, b, sep)

PathSpec == PathInit /\ [][PathNext]_vars

\* ------------------------------------------------------- key generation
\* alphabet='23456789abcdefghijkmnopqrstuvwxyzABCDEFGHJKLMNPQRSTUVWXYZ'
DefaultAlphabet ==
    << "2", "3", "4", "5", "6", "7", "8", "9",
       "a", "b", "c", "d", "e", "f", "g", "h", "i", "j", "k", "m", "n", "o",
       "p", "q", "r", "s", "t", "u", "v", "w", "x", "y", "z",
       "A", "B", "C", "D", "E", "F", "G", "H", "J", "K", "L", "M", "N", "P",
       "Q", "R", "S", "T", "U", "V", "W", "X", "Y", "Z" >>

\* gen_key(size=11), and the sizes gen_short_key, gen_medium_key and
\* gen_long_key pass.
DefaultKeySize == 11
ShortKeySize == 11
MediumKeySize == 22
LongKeySize == 44

Presets == {"gen_short_key", "gen_medium_key", "gen_long_key"}
PresetSize(f) == CASE f = "gen_short_key" -> ShortKeySize
                   [] f = "gen_medium_key" -> MediumKeySize
                   [] f = "gen_long_key" -> LongKeySize

\* The arguments of the direct calls of gen_key.
KeySizes == 0..MaxKeySize
SampleAlphabets == { <<"a">>, <<"a", "b">>, <<"0", "1", "x">> }

KeyInit ==
    /\ known = {}
    /\ expiryArg = 1
    /\ InitCallers
    /\ derived = NoDerivation
    /\ gen = NoKey

\* gen_key(size, alphabet) is called.
GenKey(size, alphabet) ==
    /\ gen.pc = "idle"
    /\ gen' = [pc |-> "drawing", via |-> "gen_key", size |-> size,
               alphabet |-> alphabet, n |-> 0, last |-> ""]
    /\ UNCHANGED <<lockVars, derived>>

\* gen_short_key(), gen_medium_key() or gen_long_key() is called: gen_key
\* with its size and the default alphabet.
GenPreset(f) ==
    /\ gen.pc = "idle"
    /\ gen' = [pc |-> "drawing", via |-> f, size |-> PresetSize(f),
               alphabet |-> DefaultAlphabet, n |-> 0, last |-> ""]
    /\ UNCHANGED <<lockVars, derived>>

\* Variant: one character too many, xrange(size + 1).
KeyLoopContinuesOnceMore == gen.n <= gen.size

\* for _ in xrange(size): there is a character left to draw.
KeyLoopContinues == gen.n < gen.size

\* random.choice(alphabet): any one of its characters.
Choice(alphabet) == { alphabet[i] : i \in 1..Len(alphabet) }

\* One character is drawn and joined.
Draw ==
    /\ gen.pc = "drawing"
    /\ KeyLoopContinues
    /\ \E c \in Choice(gen.alphabet) :
          gen' = [gen EXCEPT !.n = @ + 1, !.last = c]
    /\ UNCHANGED <<lockVars, derived>>

\* ''.join(...) returns the string.
KeyReturned ==
    /\ gen.pc = "drawing"
    /\ ~KeyLoopContinues
    /\ gen' = [gen EXCEPT !.pc = "done"]
    /\ UNCHANGED <<lockVars, derived>>

KeyNext == \/ \E size \in KeySizes, alphabet \in SampleAlphabets \cup {DefaultAlphabet} :
                 GenKey(size, alphabet)
           \/ \E f \in Presets : GenPreset(f)
           \/ Draw
           \/ KeyReturned

KeySpec == KeyInit /\ [][KeyNext]_vars

\* ------------------------------------------------------------ properties
Terminal == {"returned", "raised", "unavailable", "crashed"}
InBlock(n) == {p \in Procs : pc[p] = "block" /\ args[p].mutex = n}
Entry(p) == store[args[p].mutex]
OwnEntry(p) == Entry(p).present /\ Entry(p).owner = p

\* The step in which caller p leaves its protected block and releases.
Releases(p) == pc[p] = "block" /\ pc'[p] \in {"returned", "raised"}
\* The step in which caller p makes one memcache.add attempt.
Attempts(p) == pc[p] = "loop" /\ pc'[p] \in {"block", "sleep"}
\* The step in which caller p raises LockUnavailable.
GivesUp(p) == pc[p] = "loop" /\ pc'[p] = "unavailable"

\* C1 as stated: for every name, at most one caller is inside its protected
\* block in every reachable state, even when a block outlasts the expiry.
C1_MutualExclusion ==
    \A n \in LockNames : Cardinality(InBlock(n)) <= 1

\* C1 amended: for every name, at most one caller is inside its protected
\* block as long as no entry has expired while its creator was in its block.
C1_MutualExclusionUntilOverrun ==
    ~overrun => \A n \in LockNames : Cardinality(InBlock(n)) <= 1

C1_Witness ==
    /\ ~overrun
    /\ \E p, q \in Procs :
          /\ p # q
          /\ pc[p] = "block" /\ OwnEntry(p)
          /\ pc[q] = "sleep" /\ args[q].mutex = args[p].mutex
          /\ tally[q].attempts >= 1

\* C2: whatever the outcome of the protected block, in the state right after
\* the release step of a call the entry for its name is absent.
C2_GuaranteedRelease ==
    [][\A p \in Procs : Releases(p) => ~store'[args[p].mutex].present]_vars

C2_Witness ==
    \E p \in Procs :
        /\ pc[p] = "raised" /\ outcome[p] = "error"
        /\ tally[p].deleted = 1
        /\ ~store[args[p].mutex].present

\* C3: a call that raises LockUnavailable made exactly retries add attempts,
\* none of which succeeded (an attempt on a present entry never succeeds),
\* and the error carries the name; with retries = 0 it made no store call.
C3_BoundedRetry ==
    [][\A p \in Procs :
          /\ GivesUp(p) =>
                /\ tally[p].attempts = args[p].retries
                /\ tally[p].added = 0
                /\ err'[p] = args[p].mutex
                /\ store' = store
                /\ (args[p].retries = 0 => tally[p] = NoTally)
          /\ (Attempts(p) /\ Entry(p).present) =>
                (pc'[p] = "sleep" /\ tally'[p].added = 0)
      ]_vars

C3_Witness ==
    \E p \in Procs :
        /\ pc[p] = "unavailable"
        /\ tally[p].attempts = 2 /\ tally[p].added = 0
        /\ err[p] = args[p].mutex
        /\ store[args[p].mutex].present
        /\ \E q \in Procs \ {p} : pc[q] = "block" /\ OwnEntry(q) /\ tally[q].attempts = 1

\* C4: once expiry seconds have passed since the add of a holder that
\* crashed in its block, no entry of that holder is in the store, and an
\* attempt another caller then makes on the name while no entry is there
\* succeeds and starts that caller's block.
HealedAfterCrash(p) ==
    (pc[p] = "crashed" /\ held[p] >= args[p].expiry) => ~OwnEntry(p)

C4_SelfHealing ==
    [][\A p \in Procs :
          /\ HealedAfterCrash(p)
          /\ HealedAfterCrash(p)'
          /\ \A q \in Procs \ {p} :
                ( /\ pc[p] = "crashed" /\ held[p] >= args[p].expiry
                  /\ args[q].mutex = args[p].mutex
                  /\ Attempts(q)
                  /\ ~Entry(q).present )
                => /\ pc'[q] = "block"
                   /\ store'[args[q].mutex].present
                   /\ store'[args[q].mutex].owner = q
      ]_vars

C4_Witness ==
    \E p, q \in Procs :
        /\ p # q
        /\ pc[p] = "crashed" /\ held[p] = args[p].expiry
        /\ pc[q] = "block" /\ args[q].mutex = args[p].mutex
        /\ OwnEntry(q)
        /\ tally[q].attempts = 1

\* C5: a call that raises LockUnavailable has made no successful add and no
\* delete and has not run its block, and neither its failed attempts nor the
\* raise change the store.
C5_FailureLeavesStore ==
    [][\A p \in Procs :
          /\ pc'[p] = "unavailable" =>
                /\ tally'[p].added = 0
                /\ tally'[p].deleted = 0
                /\ ~tally'[p].ran
                /\ outcome'[p] = "none"
          /\ (GivesUp(p) \/ (Attempts(p) /\ pc'[p] = "sleep")) => store' = store
      ]_vars

C5_Witness ==
    \E p, q \in Procs :
        /\ p # q
        /\ pc[p] = "unavailable" /\ tally[p].attempts >= 1
        /\ pc[q] = "block" /\ OwnEntry(q)
        /\ args[q].mutex = args[p].mutex

\* C6 as stated: the entry a release deletes was always created by the
\* releasing call.
C6_HolderOnlyDelete ==
    [][\A p \in Procs : (Releases(p) /\ Entry(p).present) => Entry(p).owner = p]_vars

\* C6 amended: as long as no entry has expired while its creator was in its
\* block, the entry a release deletes is there and was created by the
\* releasing call.
C6_HolderOnlyDeleteUntilOverrun ==
    [][\A p \in Procs : (Releases(p) /\ ~overrun) => OwnEntry(p)]_vars

C6_Witness ==
    /\ ~overrun
    /\ \E p, q \in Procs :
          /\ p # q
          /\ pc[p] \in {"returned", "raised"} /\ tally[p].deleted = 1
          /\ pc[q] = "block" /\ OwnEntry(q)
          /\ args[q].mutex = args[p].mutex
          /\ tally[q].attempts >= 2

\* C7: a call that acquired the lock ends raising iff its block raised and
\* returning iff its block ended normally or by a return, in both cases
\* after its one delete; a call that never ran its block has no outcome.
C7_OutcomePropagation ==
    \A p \in Procs :
        /\ pc[p] \in {"returned", "raised"} =>
              /\ pc[p] = "raised" <=> outcome[p] = "error"
              /\ pc[p] = "returned" <=> outcome[p] \in {"normal", "return"}
              /\ tally[p].deleted = 1
              /\ tally[p].ran
        /\ pc[p] \notin {"returned", "raised"} => outcome[p] = "none"

C7_Witness ==
    \E p, q \in Procs :
        /\ pc[p] = "raised" /\ outcome[p] = "error" /\ tally[p].deleted = 1
        /\ pc[q] = "returned" /\ outcome[q] = "return"

\* C8: under fair scheduling every call that has started eventually ends:
\* it returns or raises after its block, raises LockUnavailable, or its
\* process dies in the block.
C8_NoUnboundedBlocking ==
    \A p \in Procs :
        (pc[p] \in {"loop", "sleep", "block"}) ~> (pc[p] \in Terminal)

C8_Witness ==
    \E p, q \in Procs :
        /\ pc[p] = "crashed"
        /\ pc[q] = "unavailable" /\ tally[q].attempts >= 1
        /\ args[q].mutex = args[p].mutex

\* C9: an add attempt returns true iff no entry for the name is there; the
\* winner's entry is then there and it is in its block, so of attempts with
\* no delete or expiry between them only the first wins; a loser leaves the
\* store as it is and sleeps.
C9_AtomicRace ==
    [][\A p \in Procs :
          Attempts(p) =>
             /\ pc'[p] = "block" <=> ~Entry(p).present
             /\ pc'[p] = "block" =>
                   /\ store'[args[p].mutex].present
                   /\ store'[args[p].mutex].owner = p
                   /\ tally'[p].added = 1
             /\ pc'[p] = "sleep" =>
                   /\ store' = store
                   /\ tally'[p].added = 0
      ]_vars

C9_Witness ==
    \E p, q \in Procs :
        /\ p # q
        /\ pc[p] = "block" /\ tally[p].attempts = 1 /\ OwnEntry(p)
        /\ Entry(p).ttl = args[p].expiry
        /\ pc[q] = "sleep" /\ tally[q].attempts = 1
        /\ args[q].mutex = args[p].mutex

\* C10 as stated: two distinct identity paths (ids without the separator)
\* never get the same name.
C10_InjectiveNaming ==
    ( /\ derived # NoDerivation
      /\ derived.a \in Paths /\ derived.b \in Paths
      /\ derived.a # derived.b )
    => derived.na # derived.nb

\* The error the name derivation would have to end with for an identity it
\* cannot resolve; as_path has no statement that raises it.
InvalidIdentity == <<"InvalidIdentity">>

\* C11 as stated: deriving a name from no item, or from a key with an id
\* that is None, ends with InvalidIdentity (so that neodb.lock reaches
\* neither the store nor the block).
C11_InvalidIdentityRejected ==
    (derived # NoDerivation /\ derived.a \in InvalidItems)
        => derived.na = InvalidIdentity

\* The name the flattening is specified to give, written from its
\* description: kind, separator, id for every pair, root first, pairs joined
\* by the separator; an integer id as the digit string without a leading
\* zero whose value it is, a string id as it is.
DigitChars == {"0", "1", "2", "3", "4", "5", "6", "7", "8", "9"}
DigitValue(c) == CHOOSE d \in 0..9 : Digit(d) = c
RECURSIVE ValueOf(_)
ValueOf(t) == IF t = <<>> THEN 0
              ELSE 10 * ValueOf(SubSeq(t, 1, Len(t) - 1)) + DigitValue(t[Len(t)])
DigitStrings == UNION { [1..k -> DigitChars] : k \in 1..2 }
IdText(id) ==
    IF id.int
    THEN CHOOSE t \in DigitStrings :
            ValueOf(t) = id.n /\ (Len(t) = 1 \/ t[1] # "0")
    ELSE id.s
RECURSIVE ExpectedName(_, _)
ExpectedName(path, sep) ==
    LET k == Len(path)
        last == path[k].kind \o sep \o IdText(path[k].id)
    IN IF k = 1 THEN last
       ELSE ExpectedName(SubSeq(path, 1, k - 1), sep) \o sep \o last

\* b holds the pairs of a in another order.
IsReordering(a, b) ==
    /\ Len(a) = Len(b)
    /\ a # b
    /\ \E f \in [1..Len(a) -> 1..Len(a)] :
          /\ \A i, j \in 1..Len(a) : i # j => f[i] # f[j]
          /\ b = [i \in 1..Len(a) |-> a[f[i]]]

FlattensAsSpecified ==
    (derived # NoDerivation /\ derived.a \in Paths)
        => derived.na = ExpectedName(derived.a, derived.sep)

\* C12 as stated: as_path gives kind, separator, id, ... in path order with
\* integer ids in base 10, the same path gives the same name, and two paths
\* with the same pairs in a different order give different names.
C12_OrderPreservingFlattening ==
    (derived # NoDerivation /\ derived.a \in Paths /\ derived.b \in Paths) =>
        /\ derived.na = ExpectedName(derived.a, derived.sep)
        /\ derived.a = derived.b => derived.na = derived.nb
        /\ IsReordering(derived.a, derived.b) => derived.na # derived.nb

\* C13: the string gen_key returns has exactly size characters, each of
\* them a character of the alphabet; the presets give 11, 22 and 44
\* characters of the default alphabet, which has 57 characters and none of
\* 0, O, 1, l, I.
Ambiguous == {"0", "O", "1", "l", "I"}

C13_GeneratorShape ==
    /\ gen.pc = "done" => gen.n = gen.size
    /\ gen.n <= gen.size
    /\ gen.n > 0 => \E i \in 1..Len(gen.alphabet) : gen.alphabet[i] = gen.last
    /\ gen.via \in Presets =>
          /\ Len(gen.alphabet) = 57
          /\ Cardinality({gen.alphabet[i] : i \in 1..Len(gen.alphabet)}) = 57
          /\ \A i \in 1..Len(gen.alphabet) : gen.alphabet[i] \notin Ambiguous
    /\ (gen.pc = "done" /\ gen.via = "gen_short_key") => gen.n = 11
    /\ (gen.pc = "done" /\ gen.via = "gen_medium_key") => gen.n = 22
    /\ (gen.pc = "done" /\ gen.via = "gen_long_key") => gen.n = 44

C13_Witness ==
    /\ gen.pc = "done" /\ gen.via = "gen_long_key"
    /\ gen.n = 44 /\ gen.last = "Z"

\* C14: an entry in the store belongs to a caller that added it and has not
\* released since, the seconds since that add and the seconds the entry has
\* left sum to the expiry of the add, and it has at least one second left:
\* no entry is older than its expiry and none is renewed.
C14_BoundedLifetime ==
    \A n \in LockNames :
        store[n].present =>
            LET p == store[n].owner
            IN /\ p \in Procs
               /\ Holding(p)
               /\ args[p].mutex = n
               /\ store[n].ttl >= 1
               /\ held[p] + store[n].ttl = args[p].expiry

C14_Witness ==
    \E p, q \in Procs :
        /\ p # q
        /\ pc[p] = "block" /\ OwnEntry(p)
        /\ held[p] = 2 /\ Entry(p).ttl = 2
        /\ pc[q] = "sleep" /\ tally[q].attempts = 2
        /\ args[q].mutex = args[p].mutex

\* C15: a call that has not acquired has no successful add, no delete and no
\* block run; a call in its block has exactly one successful add, which was
\* its last attempt, and no delete yet; a call that left its block has
\* exactly one successful add and exactly one delete.
C15_PerCallOrdering ==
    \A p \in Procs :
        /\ pc[p] \in {"idle", "loop", "sleep", "unavailable"} =>
              /\ tally[p].added = 0 /\ tally[p].deleted = 0 /\ ~tally[p].ran
        /\ pc[p] \in {"block", "crashed"} =>
              /\ tally[p].added = 1 /\ tally[p].deleted = 0 /\ tally[p].ran
              /\ tally[p].attempts = retry[p] + 1
        /\ pc[p] \in {"returned", "raised"} =>
              /\ tally[p].added = 1 /\ tally[p].deleted = 1 /\ tally[p].ran
              /\ tally[p].attempts >= 1
        /\ tally[p].ran => tally[p].added = 1

C15_Witness ==
    \E p \in Procs :
        /\ pc[p] = "returned"
        /\ tally[p] = [attempts |-> 2, added |-> 1, deleted |-> 1, ran |-> TRUE]

\* The step in which caller p starts a sleep.
StartsSleep(p) == pc[p] # "sleep" /\ pc'[p] = "sleep"

\* A sleep starts only with a failed attempt and lasts backoff ** retry
\* seconds or, with the jitter, one more; a successful attempt starts none;
\* the loop goes on only when the sleep is over.
SleepsAfterFailure(p) ==
    /\ StartsSleep(p) =>
          /\ Attempts(p)
          /\ Entry(p).present
          /\ sleepLeft'[p] - Pow(args[p].backoff, retry[p]) \in {0, 1}
    /\ (Attempts(p) /\ pc'[p] = "block") => sleepLeft'[p] = 0
    /\ (pc[p] = "sleep" /\ pc'[p] # "sleep") =>
          sleepLeft[p] = 0 /\ pc'[p] = "loop" /\ retry'[p] = retry[p] + 1

\* C16 as stated: the backoff schedule, and no sleep is started once no
\* further attempt will be made.
C16_BackoffSchedule ==
    [][\A p \in Procs :
          /\ SleepsAfterFailure(p)
          /\ StartsSleep(p) => retry[p] + 1 < args[p].retries
      ]_vars

\* C16 amended: the backoff schedule; a sleep follows every failed attempt,
\* the last one too, after which the call raises LockUnavailable.
C16_BackoffScheduleSleepsLast ==
    [][\A p \in Procs :
          /\ SleepsAfterFailure(p)
          /\ (Attempts(p) /\ pc'[p] # "block") => StartsSleep(p)
          /\ GivesUp(p) => (args[p].retries = 0 \/ sleepLeft[p] = 0)
      ]_vars

C16_Witness ==
    \E p \in Procs :
        /\ pc[p] = "sleep"
        /\ retry[p] = 1 /\ args[p].retries = 2
        /\ sleepLeft[p] = 3

\* C17: a later attempt of a call (not its first) that finds no entry for
\* the name succeeds: the caller owns the entry and is in its block; and a
\* call that has entered its block never raises LockUnavailable.
C17_SucceedsAfterRelease ==
    [][\A q \in Procs :
          /\ (Attempts(q) /\ retry[q] >= 1 /\ ~Entry(q).present) =>
                /\ pc'[q] = "block"
                /\ tally'[q].ran
                /\ store'[args[q].mutex].present
                /\ store'[args[q].mutex].owner = q
          /\ tally[q].ran => pc'[q] # "unavailable"
      ]_vars

C17_Witness ==
    /\ expiryArg = LongExpiry
    /\ ~overrun
    /\ \E p, q \in Procs :
          /\ p # q
          /\ pc[p] = "returned" /\ tally[p].attempts = 1 /\ tally[p].deleted = 1
          /\ pc[q] = "block" /\ OwnEntry(q)
          /\ tally[q].attempts >= 2
          /\ args[q].mutex = args[p].mutex

\* The entries of all names but the one caller p's call is about.
OtherNames(p) == LockNames \ {args'[p].mutex}

\* C18: a step of a call of mutex.lock(name) leaves the entry of every other
\* name as it is (presence, creator, remaining lifetime), and an attempt
\* succeeds exactly when there is no entry for its own name, whatever
\* entries other names have.
C18_PerNameIsolation ==
    [][\A p \in Procs :
          /\ Step(p) => \A n \in OtherNames(p) : store'[n] = store[n]
          /\ Attempts(p) => (pc'[p] = "block" <=> ~Entry(p).present)
      ]_vars

C18_Witness ==
    \E p, q \in Procs :
        /\ args[p].mutex # args[q].mutex
        /\ pc[p] = "block" /\ OwnEntry(p) /\ tally[p].attempts = 1
        /\ pc[q] = "returned" /\ tally[q].attempts = 1 /\ tally[q].deleted = 1
        /\ held[p] = 1 /\ Entry(p).ttl = 1

\* Call q was made inside the protected block of another call.
Nested(q) == parent[q] # 0

\* C19: an attempt of a nested call made while the name has an entry fails
\* and leaves the store alone; a nested call enters its block only by an add
\* of its own that found no entry; as long as no entry has expired under a
\* running block no nested call runs its block, and the nested call raises
\* LockUnavailable after exactly its retries; the outer call deletes the
\* entry when its block exits.
C19_NonReentrancy ==
    [][\A q \in Procs :
          /\ (Nested(q) /\ Attempts(q) /\ Entry(q).present) =>
                pc'[q] = "sleep" /\ store' = store
          /\ (Nested(q) /\ Attempts(q) /\ pc'[q] = "block") =>
                /\ ~Entry(q).present
                /\ store'[args[q].mutex].owner = q
          /\ (Nested(q) /\ GivesUp(q)) =>
                tally[q].attempts = args[q].retries /\ tally[q].added = 0
          /\ (parent'[q] # 0 /\ ~overrun') => ~tally'[q].ran
          /\ (Releases(q) /\ \E c \in Procs : parent[c] = q) =>
                /\ tally'[q].deleted = 1
                /\ ~store'[args[q].mutex].present
      ]_vars

C19_Witness ==
    /\ ~overrun
    /\ \E p, q \in Procs :
          /\ parent[q] = p
          /\ pc[q] = "unavailable" /\ err[q] = args[p].mutex
          /\ tally[q] = [attempts |-> 2, added |-> 0, deleted |-> 0, ran |-> FALSE]
          /\ pc[p] = "raised" /\ tally[p].deleted = 1
          /\ ~store[args[p].mutex].present

====
